---- MODULE Spec2Model ----
(***************************************************************************)
(* Model of the HBG1/2 ONT read classifier (classify_read), of the batch   *)
(* loop that tallies one summary row per alignment file, and of the merge  *)
(* script that concatenates the per-sample tables.                         *)
(***************************************************************************)
EXTENDS Integers, Sequences, FiniteSets, TLC

VARIABLES
    read,         \* classifier: the alignment record handed to classify_read
    cat,          \* classifier: the label classify_read returned ("pending" before)
    pc,           \* batch loop / merge script: position in the script
    todo,         \* batch loop: number of discovered .sorted.bam files not yet visited
    sample,       \* batch loop: index of the file being processed (its folder name)
    counts,       \* batch loop: the defaultdict(int) of the current file
    kept,         \* batch loop: records of the current file not labelled "ignored" (history)
    fetched,      \* batch loop: records fetched so far in the whole run
    rows,         \* batch loop: the summary rows exported so far, in order
    keptLog,      \* batch loop: value of kept at each export (history)
    failed,       \* batch loop: files skipped by one of the two except branches (history)
    bamfile,      \* batch loop: handle the name `bamfile` is bound to (0 = unbound)
    openHandles,  \* batch loop: handles opened and not yet released
    pending,      \* merge: number of directory entries still to be visited
    all_data,     \* merge: the list of projected data frames
    imported,     \* merge: the tables read and selected without error (history)
    errors,       \* merge: number of times the except branch ran (messages printed)
    output        \* merge: the combined table written, or NoOutput

vars == <<read, cat, pc, todo, sample, counts, kept, fetched, rows, keptLog, failed,
          bamfile, openHandles, pending, all_data, imported, errors, output>>

classVars == <<read, cat>>
batchVars == <<todo, sample, counts, kept, fetched, rows, keptLog, failed, bamfile,
               openHandles>>
mergeVars == <<pending, all_data, imported, errors, output>>

----------------------------------------------------------------------------
(* Bounds of the model *)

MaxCigarLen == 3   \* longest operation sequence built from ScanOps
MaxFiles == 3      \* most .sorted.bam files one walk discovers
MaxReads == 2      \* most records fetched in one run of the batch loop
MaxEntries == 3    \* most directory entries the merge script visits

----------------------------------------------------------------------------
(* CLASSIFICATION PARAMETERS *)

LOCUS_START == 5244000
LOCUS_END == 5259000
DEL_CRISPR_START == 5250097
DEL_CRISPR_END == 5255025
DEL_MARGIN == 60
DEL_CRISPR_alt_START == 5249028
DEL_CRISPR_alt_END == 5253928
DEL_alt_MARGIN == 60
WT_MIN_LEN == 6000
WT_MAX_LEN == 10500
SHORT_READ_LEN == 1800
INDEL_WINDOW == 10
CUT_SITES == {5250100, 5255040}

\* CIGAR operation codes as pysam numbers them
BAM_CMATCH == 0
BAM_CINS == 1
BAM_CDEL == 2
BAM_CREF_SKIP == 3
BAM_CEQUAL == 7
BAM_CDIFF == 8

abs(x) == IF x < 0 THEN -x ELSE x

----------------------------------------------------------------------------
(* classify_read *)

\* faulty variant of IsIgnored: the upper locus bound is not tested
IsIgnored_NoLocusEnd(r) ==
    \/ r.is_unmapped \/ r.is_secondary
    \/ r.mapping_quality < 10
    \/ r.reference_name # "chr11"
    \/ r.reference_start < LOCUS_START

\* the early returns "ignored"
IsIgnored(r) ==
    \/ r.is_unmapped \/ r.is_secondary
    \/ r.mapping_quality < 10
    \/ r.reference_name # "chr11"
    \/ r.reference_start < LOCUS_START \/ r.reference_end > LOCUS_END

\* faulty variant of IsDel5kb: the upper end of the length gate is mistyped
IsDel5kb_NarrowGate(del_start, del_end, length) ==
    /\ 4600 <= length /\ length <= 4900
    /\ \/ /\ abs(del_start - DEL_CRISPR_START) <= DEL_MARGIN
          /\ abs(del_end - DEL_CRISPR_END) <= DEL_MARGIN
       \/ /\ abs(del_start - DEL_CRISPR_alt_START) <= DEL_alt_MARGIN
          /\ abs(del_end - DEL_CRISPR_alt_END) <= DEL_alt_MARGIN
       \/ (4923 <= length /\ length <= 4933)

\* the test made on one deletion / skip operation
IsDel5kb(del_start, del_end, length) ==
    /\ 4600 <= length /\ length <= 5400
    /\ \/ /\ abs(del_start - DEL_CRISPR_START) <= DEL_MARGIN
          /\ abs(del_end - DEL_CRISPR_END) <= DEL_MARGIN
       \/ /\ abs(del_start - DEL_CRISPR_alt_START) <= DEL_alt_MARGIN
          /\ abs(del_end - DEL_CRISPR_alt_END) <= DEL_alt_MARGIN
       \/ (4923 <= length /\ length <= 4933)

NearCutSite(ref_pos) == \E cut \in CUT_SITES : abs(ref_pos - cut) <= INDEL_WINDOW

\* First loop over read.cigartuples.  The result records whether the loop
\* returned "del_5kb" and the value of ref_pos on entry to each operation
\* the loop visited.
RECURSIVE LargeDelWalk(_, _, _)
LargeDelWalk(cig, ref_pos, seen) ==
    IF cig = <<>> THEN [hit |-> FALSE, cursors |-> seen]
    ELSE LET op == Head(cig)[1]
             length == Head(cig)[2]
             here == Append(seen, ref_pos)
         IN  IF op \in {BAM_CMATCH, BAM_CEQUAL, BAM_CDIFF}
             THEN LargeDelWalk(Tail(cig), ref_pos + length, here)
             ELSE IF op \in {BAM_CDEL, BAM_CREF_SKIP}
             THEN IF IsDel5kb(ref_pos, ref_pos + length, length)
                  THEN [hit |-> TRUE, cursors |-> here]
                  ELSE LargeDelWalk(Tail(cig), ref_pos + length, here)
             ELSE LargeDelWalk(Tail(cig), ref_pos, here)

\* Second loop over read.cigartuples: it advances ref_pos on match / equal /
\* mismatch and on deletion, and on nothing else.
RECURSIVE SmallIndelWalk(_, _, _)
SmallIndelWalk(cig, ref_pos, seen) ==
    IF cig = <<>> THEN [hit |-> FALSE, cursors |-> seen]
    ELSE LET op == Head(cig)[1]
             length == Head(cig)[2]
             here == Append(seen, ref_pos)
         IN  IF op \in {BAM_CMATCH, BAM_CEQUAL, BAM_CDIFF}
             THEN SmallIndelWalk(Tail(cig), ref_pos + length, here)
             ELSE IF op = BAM_CDEL
             THEN IF length <= 10 /\ NearCutSite(ref_pos)
                  THEN [hit |-> TRUE, cursors |-> here]
                  ELSE SmallIndelWalk(Tail(cig), ref_pos + length, here)
             ELSE IF op = BAM_CINS
             THEN IF length <= 10 /\ NearCutSite(ref_pos)
                  THEN [hit |-> TRUE, cursors |-> here]
                  ELSE SmallIndelWalk(Tail(cig), ref_pos, here)
             ELSE SmallIndelWalk(Tail(cig), ref_pos, here)

\* faulty variant of LengthCategory: the floor of 2000 is not tested
LengthCategory_NoFloor(align_len) ==
    IF WT_MIN_LEN <= align_len /\ align_len <= WT_MAX_LEN THEN "WT"
    ELSE IF align_len < WT_MIN_LEN THEN "truncated_reads"
    ELSE "Unclassified_reads"

\* rules 4 to 6
LengthCategory(align_len) ==
    IF WT_MIN_LEN <= align_len /\ align_len <= WT_MAX_LEN THEN "WT"
    ELSE IF 2000 <= align_len /\ align_len < WT_MIN_LEN THEN "truncated_reads"
    ELSE "Unclassified_reads"

\* faulty variant of classify_read: the small-indel loop runs before the
\* large-deletion loop
classify_read_IndelFirst(r) ==
    IF IsIgnored(r) THEN "ignored"
    ELSE IF r.query_length < SHORT_READ_LEN THEN "Artifact"
    ELSE IF SmallIndelWalk(r.cigartuples, r.reference_start, <<>>).hit THEN "small_indels"
    ELSE IF LargeDelWalk(r.cigartuples, r.reference_start, <<>>).hit THEN "del_5kb"
    ELSE LengthCategory(r.reference_end - r.reference_start)

classify_read(r) ==
    IF IsIgnored(r) THEN "ignored"
    ELSE IF r.query_length < SHORT_READ_LEN THEN "Artifact"
    ELSE IF LargeDelWalk(r.cigartuples, r.reference_start, <<>>).hit THEN "del_5kb"
    ELSE IF SmallIndelWalk(r.cigartuples, r.reference_start, <<>>).hit THEN "small_indels"
    ELSE LengthCategory(r.reference_end - r.reference_start)

----------------------------------------------------------------------------
(* The records the alignment reader can hand over *)

\* reference span of an operation sequence: M, D, N, = and X consume reference
RECURSIVE RefSpan(_)
RefSpan(cig) ==
    IF cig = <<>> THEN 0
    ELSE (IF Head(cig)[1] \in {BAM_CMATCH, BAM_CDEL, BAM_CREF_SKIP, BAM_CEQUAL, BAM_CDIFF}
          THEN Head(cig)[2] ELSE 0) + RefSpan(Tail(cig))

AlignedRecord(u, s, q, chr, start, qlen, cig, end) ==
    [is_unmapped |-> u, is_secondary |-> s, mapping_quality |-> q,
     reference_name |-> chr, reference_start |-> start, reference_end |-> end,
     query_length |-> qlen, cigartuples |-> cig]

\* operations used to build operation sequences around the cut sites
\* (4 is a soft clip, an operation neither loop of classify_read names)
ScanOps ==
    { <<BAM_CMATCH, 28>>, <<BAM_CMATCH, 97>>, <<BAM_CEQUAL, 60>>, <<BAM_CDIFF, 61>>,
      <<BAM_CINS, 3>>, <<BAM_CDEL, 6>>, <<BAM_CDEL, 11>>,
      <<BAM_CDEL, 4928>>, <<BAM_CDEL, 5025>>, <<BAM_CDEL, 4868>>, <<BAM_CDEL, 4900>>,
      <<BAM_CREF_SKIP, 97>>, <<BAM_CREF_SKIP, 4923>>, <<4, 50>> }

ScanCigars == UNION { [1..n -> ScanOps] : n \in 1..MaxCigarLen }

ScanReads ==
    { AlignedRecord(FALSE, FALSE, 60, "chr11", start, qlen, cig, start + RefSpan(cig)) :
        start \in {5249000, 5250000}, qlen \in {1800}, cig \in ScanCigars }

\* operation sequences that decide the exclusion, Artifact and length rules
LengthCigars ==
    { <<<<BAM_CMATCH, n>>>> :
        n \in {1500, 1999, 2000, 3000, 5999, 6000, 7000, 9000, 9001, 10500, 10501,
               15000, 15001} }
    \cup { <<<<BAM_CMATCH, 97>>, <<BAM_CDEL, 4928>>, <<BAM_CMATCH, 1702>>>>,
           <<<<BAM_CMATCH, 97>>, <<BAM_CINS, 3>>, <<BAM_CMATCH, 7000>>>> }

FilterReads ==
    { AlignedRecord(u, s, q, chr, start, qlen, cig, start + RefSpan(cig)) :
        u \in BOOLEAN, s \in BOOLEAN, q \in {9, 10}, chr \in {"chr11", "chr12"},
        start \in {5243999, 5244000, 5250000}, qlen \in {1799, 1800},
        cig \in LengthCigars }

\* operation sequences around the second cut site, and after a skip
CutSiteCigars ==
    { <<<<BAM_CMATCH, 5029>>, <<BAM_CDEL, 6>>, <<BAM_CMATCH, 2000>>>>,
      <<<<BAM_CMATCH, 5030>>, <<BAM_CDEL, 6>>, <<BAM_CMATCH, 2000>>>>,
      <<<<BAM_CMATCH, 5050>>, <<BAM_CINS, 3>>, <<BAM_CMATCH, 2000>>>>,
      <<<<BAM_CMATCH, 5051>>, <<BAM_CINS, 3>>, <<BAM_CMATCH, 2000>>>>,
      <<<<BAM_CMATCH, 5040>>, <<BAM_CINS, 11>>, <<BAM_CMATCH, 2000>>>>,
      <<<<BAM_CMATCH, 97>>, <<BAM_CDEL, 6>>, <<BAM_CMATCH, 7000>>>>,
      <<<<BAM_CREF_SKIP, 97>>, <<BAM_CDEL, 6>>, <<BAM_CMATCH, 7000>>>>,
      <<<<BAM_CREF_SKIP, 97>>, <<BAM_CMATCH, 97>>, <<BAM_CDEL, 6>>, <<BAM_CMATCH, 7000>>>> }

CutSiteReads ==
    { AlignedRecord(FALSE, FALSE, 20, "chr11", 5250000, 1800, cig, 5250000 + RefSpan(cig)) :
        cig \in CutSiteCigars }

\* records without an operation sequence: the reference end is a field of its own
NoCigarReads ==
    { AlignedRecord(u, s, q, chr, start, qlen, <<>>, start + len) :
        u \in BOOLEAN, s \in BOOLEAN, q \in {9, 10}, chr \in {"chr11", "chr12"},
        start \in {5243999, 5250000}, qlen \in {1799, 1800},
        len \in {0, 1500, 3000, 7000, 9001} }

Reads == ScanReads \cup CutSiteReads \cup FilterReads \cup NoCigarReads

Categories == {"WT", "truncated_reads", "small_indels", "del_5kb", "Artifact",
               "Unclassified_reads"}

----------------------------------------------------------------------------
(* Specification of the classifier: one record in, one label out *)

NoOutput == "none"

InitClassify ==
    /\ read \in Reads
    /\ cat = "pending"
    /\ pc = "classify"
    /\ todo = 0 /\ sample = 0 /\ counts = <<>> /\ kept = 0 /\ fetched = 0
    /\ rows = <<>> /\ keptLog = <<>> /\ failed = {} /\ bamfile = 0 /\ openHandles = {}
    /\ pending = 0 /\ all_data = <<>> /\ imported = <<>> /\ errors = 0 /\ output = NoOutput

Classify ==
    /\ pc = "classify"
    /\ cat' = classify_read(read)
    /\ pc' = "classified"
    /\ UNCHANGED <<read, batchVars, mergeVars>>

NextClassify == Classify

SpecClassify == InitClassify /\ [][NextClassify]_vars

----------------------------------------------------------------------------
(* BAM Processing: the batch loop *)

columns_order == <<"sample", "total_reads", "WT", "truncated_reads", "small_indels",
                   "del_5kb", "Artifact", "Unclassified_reads">>

Range(seq) == { seq[i] : i \in DOMAIN seq }

EmptyCounts == [c \in {} |-> 0]

\* d[k] = v on a dict
Put(d, k, v) == [x \in DOMAIN d \cup {k} |-> IF x = k THEN v ELSE d[x]]

\* sum(counts.values())
RECURSIVE SumOver(_, _)
SumOver(d, keys) ==
    IF keys = {} THEN 0
    ELSE LET k == CHOOSE x \in keys : TRUE
         IN  d[k] + SumOver(d, keys \ {k})

SumValues(d) == SumOver(d, DOMAIN d)

\* faulty variant of Tally: the label is counted without the test against "ignored"
Tally_CountsIgnored(d, c) ==
    Put(d, c, (IF c \in DOMAIN d THEN d[c] ELSE 0) + 1)

\* cat = classify_read(read); if cat != "ignored": counts[cat] += 1
Tally(d, c) ==
    IF c # "ignored"
    THEN Put(d, c, (IF c \in DOMAIN d THEN d[c] ELSE 0) + 1)
    ELSE d

\* for col in columns_order: if col not in counts: counts[col] = 0
ZeroFill(d) ==
    [c \in DOMAIN d \cup Range(columns_order) |-> IF c \in DOMAIN d THEN d[c] ELSE 0]

\* the one-row frame pd.DataFrame([counts])[columns_order]
SummaryRow(d, name) ==
    LET withTotal == Put(d, "total_reads", SumValues(d))
        withSample == Put(withTotal, "sample", name)
        filled == ZeroFill(withSample)
    IN  [c \in Range(columns_order) |-> filled[c]]

\* records the iteration over one file can yield, one per label
BatchReads ==
    { AlignedRecord(FALSE, FALSE, 60, chr, 5250000, qlen, cig, 5250000 + RefSpan(cig)) :
        chr \in {"chr11"}, qlen \in {1800},
        cig \in { <<<<BAM_CMATCH, 7000>>>>, <<<<BAM_CMATCH, 3000>>>>, <<<<BAM_CMATCH, 1500>>>>,
                  <<<<BAM_CMATCH, 97>>, <<BAM_CDEL, 6>>, <<BAM_CMATCH, 7000>>>>,
                  <<<<BAM_CMATCH, 97>>, <<BAM_CDEL, 4928>>, <<BAM_CMATCH, 1702>>>> } }
    \cup { AlignedRecord(FALSE, FALSE, 60, "chr11", 5250000, 1799,
                         <<<<BAM_CMATCH, 1799>>>>, 5251799),
           AlignedRecord(FALSE, TRUE, 60, "chr11", 5250000, 7000,
                         <<<<BAM_CMATCH, 7000>>>>, 5257000),
           AlignedRecord(FALSE, FALSE, 3, "chr11", 5250000, 7000,
                         <<<<BAM_CMATCH, 7000>>>>, 5257000) }

InitBatch ==
    /\ pc = "walk"
    /\ todo \in 0..MaxFiles
    /\ sample = 0 /\ counts = EmptyCounts /\ kept = 0 /\ fetched = 0
    /\ rows = <<>> /\ keptLog = <<>> /\ failed = {} /\ bamfile = 0 /\ openHandles = {}
    /\ read = "none" /\ cat = "pending"
    /\ pending = 0 /\ all_data = <<>> /\ imported = <<>> /\ errors = 0 /\ output = NoOutput

\* pysam.AlignmentFile(bam_path, "rb") succeeds; counts = defaultdict(int).
\* Binding the name bamfile to the new handle drops the last reference to the
\* handle it named before, which the interpreter then deallocates.
OpenOk ==
    /\ pc = "walk" /\ todo > 0
    /\ sample' = sample + 1 /\ todo' = todo - 1
    /\ bamfile' = sample + 1
    /\ openHandles' = (openHandles \ {bamfile}) \cup {sample + 1}
    /\ counts' = EmptyCounts /\ kept' = 0
    /\ pc' = "fetch"
    /\ UNCHANGED <<classVars, fetched, rows, keptLog, failed, mergeVars>>

\* pysam.AlignmentFile raises ValueError: message, continue
OpenError ==
    /\ pc = "walk" /\ todo > 0
    /\ sample' = sample + 1 /\ todo' = todo - 1
    /\ failed' = failed \cup {sample + 1}
    /\ UNCHANGED <<classVars, pc, counts, kept, fetched, rows, keptLog, bamfile,
                   openHandles, mergeVars>>

\* one turn of `for read in bamfile.fetch("chr11")`
NextRead ==
    /\ pc = "fetch" /\ fetched < MaxReads
    /\ \E r \in BatchReads :
         /\ counts' = Tally(counts, classify_read(r))
         /\ kept' = IF classify_read(r) # "ignored" THEN kept + 1 ELSE kept
    /\ fetched' = fetched + 1
    /\ UNCHANGED <<classVars, pc, todo, sample, rows, keptLog, failed, bamfile,
                   openHandles, mergeVars>>

\* faulty variant of FetchError: the except branch leaves the loop over the files
FetchError_Break ==
    /\ pc = "fetch"
    /\ failed' = failed \cup {sample}
    /\ pc' = "done"
    /\ UNCHANGED <<classVars, todo, sample, counts, kept, fetched, rows, keptLog,
                   bamfile, openHandles, mergeVars>>

\* fetch (or the iteration) raises ValueError: message, continue
FetchError ==
    /\ pc = "fetch"
    /\ failed' = failed \cup {sample}
    /\ pc' = "walk"
    /\ UNCHANGED <<classVars, todo, sample, counts, kept, fetched, rows, keptLog,
                   bamfile, openHandles, mergeVars>>

\* the iteration is exhausted: totals, zero fill, one-row frame, to_csv
Export ==
    /\ pc = "fetch"
    /\ rows' = Append(rows, SummaryRow(counts, sample))
    /\ keptLog' = Append(keptLog, kept)
    /\ pc' = "walk"
    /\ UNCHANGED <<classVars, todo, sample, counts, kept, fetched, failed, bamfile,
                   openHandles, mergeVars>>

\* os.walk is exhausted
WalkDone ==
    /\ pc = "walk" /\ todo = 0
    /\ pc' = "done"
    /\ UNCHANGED <<classVars, batchVars, mergeVars>>

NextBatch == OpenOk \/ OpenError \/ NextRead \/ FetchError \/ Export \/ WalkDone

SpecBatch == InitBatch /\ [][NextBatch]_vars

----------------------------------------------------------------------------
(* merge_crispr_results: the merge script *)

columns_to_keep == <<"sample", "total_reads", "WT", "small_indels", "del_5kb">>

\* position of a column name in a header
IndexOf(header, name) == CHOOSE k \in DOMAIN header : header[k] = name

\* faulty variant of Project: the frame is appended without the selection of columns
Project_KeepAll(df, keep) == df

\* df[columns_to_keep]; defined when every kept column is in the header
Project(df, keep) ==
    [columns |-> keep,
     data |-> [i \in DOMAIN df.data |->
                 [k \in DOMAIN keep |-> df.data[i][IndexOf(df.columns, keep[k])]]]]

HasColumns(df, keep) == Range(keep) \subseteq Range(df.columns)

\* pd.concat(all_data, ignore_index=True) on frames with equal headers
RECURSIVE ConcatData(_)
ConcatData(frames) ==
    IF frames = <<>> THEN <<>>
    ELSE Head(frames).data \o ConcatData(Tail(frames))

Concat(frames) == [columns |-> Head(frames).columns, data |-> ConcatData(frames)]

\* headers a per-sample CSV can carry: the exported one, one with a further
\* column in front, one in another order, one that lacks small_indels
CsvHeaders ==
    { columns_order,
      <<"run">> \o columns_order,
      <<"del_5kb", "Artifact", "WT", "sample", "small_indels", "total_reads">>,
      <<"sample", "total_reads", "WT", "truncated_reads", "del_5kb">> }

\* value of the cell of sample s under column c: distinct for distinct columns
CellOf(s, c) ==
    IF c = "sample" THEN s
    ELSE 10 * s + (CHOOSE k \in DOMAIN (<<"run">> \o columns_order) :
                       (<<"run">> \o columns_order)[k] = c)

\* a table as pd.read_csv returns it: a header and the rows under it
CsvTable(header, samples) ==
    [columns |-> header,
     data |-> [i \in DOMAIN samples |-> [k \in DOMAIN header |-> CellOf(samples[i], header[k])]]]

CsvTables ==
    { CsvTable(h, ss) : h \in CsvHeaders, ss \in {<<>>, <<1>>, <<1, 2>>} }

InitMerge ==
    /\ pc = "listing"
    /\ pending \in 0..MaxEntries
    /\ all_data = <<>> /\ imported = <<>> /\ errors = 0 /\ output = NoOutput
    /\ read = "none" /\ cat = "pending"
    /\ todo = 0 /\ sample = 0 /\ counts = EmptyCounts /\ kept = 0 /\ fetched = 0
    /\ rows = <<>> /\ keptLog = <<>> /\ failed = {} /\ bamfile = 0 /\ openHandles = {}

\* an entry that is no barcode folder, or a file without the CSV suffix
SkipEntry ==
    /\ pc = "listing" /\ pending > 0
    /\ pending' = pending - 1
    /\ UNCHANGED <<classVars, pc, batchVars, all_data, imported, errors, output>>

\* read_csv and the selection succeed: the frame is appended.  The message
\* that follows reads df['sample'].iloc[0]; on a frame without rows that
\* raises inside the try block, after the append.
ImportOk ==
    /\ pc = "listing" /\ pending > 0
    /\ \E df \in CsvTables :
         /\ HasColumns(df, columns_to_keep)
         /\ all_data' = Append(all_data, Project(df, columns_to_keep))
         /\ imported' = Append(imported, df)
         /\ errors' = IF df.data = <<>> THEN errors + 1 ELSE errors
    /\ pending' = pending - 1
    /\ UNCHANGED <<classVars, pc, batchVars, output>>

\* read_csv raises, or a kept column is missing: message, nothing appended
ImportError ==
    /\ pc = "listing" /\ pending > 0
    /\ \E unreadable \in BOOLEAN : \E df \in CsvTables :
         unreadable \/ ~HasColumns(df, columns_to_keep)
    /\ errors' = errors + 1
    /\ pending' = pending - 1
    /\ UNCHANGED <<classVars, pc, batchVars, all_data, imported, output>>

\* if all_data: concat and to_csv
WriteGlobal ==
    /\ pc = "listing" /\ pending = 0 /\ all_data # <<>>
    /\ output' = Concat(all_data)
    /\ pc' = "merged"
    /\ UNCHANGED <<classVars, batchVars, pending, all_data, imported, errors>>

\* else: "No .csv file found to concatenate."
NothingToMerge ==
    /\ pc = "listing" /\ pending = 0 /\ all_data = <<>>
    /\ pc' = "merged"
    /\ UNCHANGED <<classVars, batchVars, mergeVars>>

NextMerge == SkipEntry \/ ImportOk \/ ImportError \/ WriteGlobal \/ NothingToMerge

SpecMerge == InitMerge /\ [][NextMerge]_vars

----------------------------------------------------------------------------
(* Statements about the classifier *)

Classified == pc = "classified"

\* the exclusion conditions as the specification lists them
Excluded(r) ==
    \/ r.is_unmapped = TRUE \/ r.is_secondary = TRUE
    \/ r.mapping_quality < 10
    \/ r.reference_name # "chr11"
    \/ r.reference_start < 5244000
    \/ r.reference_end > 5259000

\* reference position at which operation i of the record starts: reference_start
\* plus the lengths of all preceding reference-consuming operations
RefPosBefore(r, i) == r.reference_start + RefSpan(SubSeq(r.cigartuples, 1, i - 1))

\* operation i is a deletion or skip that satisfies the large-deletion rule
LargeDeletionAt(r, i) ==
    LET op == r.cigartuples[i][1]
        L == r.cigartuples[i][2]
        s == RefPosBefore(r, i)
        e == RefPosBefore(r, i) + L
    IN  /\ op \in {2, 3}
        /\ 4600 <= L /\ L <= 5400
        /\ \/ (abs(s - 5250097) <= 60 /\ abs(e - 5255025) <= 60)
           \/ (abs(s - 5249028) <= 60 /\ abs(e - 5253928) <= 60)
           \/ (4923 <= L /\ L <= 4933)

HasLargeDeletion(r) == \E i \in DOMAIN r.cigartuples : LargeDeletionAt(r, i)

\* operation i is a deletion of length 6 starting within 10 nt of a cut site
ShortDeletionAtCut(r, i) ==
    /\ r.cigartuples[i] = <<2, 6>>
    /\ \/ abs(RefPosBefore(r, i) - 5250100) <= 10
       \/ abs(RefPosBefore(r, i) - 5255040) <= 10

\* C1: a record that is unmapped, secondary, of mapping quality below 10, off
\* chr11, or not inside [5,244,000, 5,259,000] is labelled "ignored", whatever
\* its query length and operation sequence.
C1_ExcludedIsIgnored == Classified /\ Excluded(read) => cat = "ignored"

\* C1 witness: a record excluded only because it ends past the locus
C1_Witness ==
    /\ Classified /\ cat = "ignored"
    /\ read.reference_end > 5259000 /\ read.reference_start >= 5244000
    /\ ~read.is_unmapped /\ ~read.is_secondary /\ read.mapping_quality >= 10
    /\ read.reference_name = "chr11" /\ read.cigartuples # <<>>

\* C2 as stated: a record passing the exclusion filter with a deletion of
\* length 5025 starting at 5,250,097 is labelled "del_5kb".
C2_Del5025IsDel5kb ==
    Classified /\ ~Excluded(read)
      /\ (\E i \in DOMAIN read.cigartuples :
             read.cigartuples[i] = <<2, 5025>> /\ RefPosBefore(read, i) = 5250097)
    => cat = "del_5kb"

\* C2 amended: a record passing the exclusion filter, of query length at least
\* 1800, with a deletion of length 4928 starting at 5,250,097 (so ending at
\* 5,255,025) is labelled "del_5kb".
C2_Del4928IsDel5kb ==
    Classified /\ ~Excluded(read) /\ read.query_length >= 1800
      /\ (\E i \in DOMAIN read.cigartuples :
             read.cigartuples[i] = <<2, 4928>> /\ RefPosBefore(read, i) = 5250097)
    => cat = "del_5kb"

C2_Witness ==
    /\ Classified /\ cat = "del_5kb" /\ read.query_length >= 1800
    /\ Len(read.cigartuples) >= 2
    /\ read.cigartuples[2] = <<2, 4928>> /\ RefPosBefore(read, 2) = 5250097

\* C3 as stated: a record passing the exclusion filter that contains a
\* deletion of length 6 starting within 10 nt of a cut site, and no deletion
\* or skip matching the large-deletion rule, is labelled "small_indels".
C3_ShortDeletionIsSmallIndel ==
    Classified /\ ~Excluded(read) /\ ~HasLargeDeletion(read)
      /\ (\E i \in DOMAIN read.cigartuples : ShortDeletionAtCut(read, i))
    => cat = "small_indels"

\* C4: when no exclusion, Artifact, large-deletion or small-indel rule fires,
\* the label is decided by reference_end - reference_start alone: WT on
\* [6000, 10500], truncated_reads on [2000, 6000), Unclassified_reads otherwise;
\* a record without operation sequence that passes exclusion with query
\* length >= 1800 is such a record.
ByLength(len) ==
    IF 6000 <= len /\ len <= 10500 THEN "WT"
    ELSE IF 2000 <= len /\ len < 6000 THEN "truncated_reads"
    ELSE "Unclassified_reads"

NoEarlierRule(r) ==
    /\ ~Excluded(r) /\ r.query_length >= 1800
    /\ ~LargeDelWalk(r.cigartuples, r.reference_start, <<>>).hit
    /\ ~SmallIndelWalk(r.cigartuples, r.reference_start, <<>>).hit

C4_LengthDecides ==
    /\ Classified /\ NoEarlierRule(read)
         => cat = ByLength(read.reference_end - read.reference_start)
    /\ Classified /\ read.cigartuples = <<>> /\ ~Excluded(read) /\ read.query_length >= 1800
         => cat = ByLength(read.reference_end - read.reference_start)

C4_Witness ==
    /\ Classified /\ NoEarlierRule(read) /\ read.cigartuples # <<>>
    /\ read.reference_end - read.reference_start = 3000
    /\ cat = "truncated_reads"

\* C9: for a record passing exclusion with query length >= 1800 the label is
\* "del_5kb" exactly when some deletion or skip satisfies the large-deletion
\* rule at its true reference position, also when a short indel near a cut
\* site comes earlier in the operation sequence.
C9_Del5kbIff ==
    Classified /\ ~Excluded(read) /\ read.query_length >= 1800
    => (cat = "del_5kb" <=> HasLargeDeletion(read))

\* C9 witness: a short insertion near a cut site precedes the large deletion
C9_Witness ==
    /\ Classified /\ cat = "del_5kb"
    /\ Len(read.cigartuples) = 3
    /\ read.cigartuples[2] = <<1, 3>> /\ abs(RefPosBefore(read, 2) - 5250100) <= 10
    /\ LargeDeletionAt(read, 3)

\* C10 as stated: before every operation both loops hold the same cursor
\* (the true reference position), and classifying with one shared traversal
\* gives the label classify_read gives.
SharedTraversalLabel(r) ==
    IF Excluded(r) THEN "ignored"
    ELSE IF r.query_length < 1800 THEN "Artifact"
    ELSE IF HasLargeDeletion(r) THEN "del_5kb"
    ELSE IF \E i \in DOMAIN r.cigartuples :
              /\ r.cigartuples[i][1] \in {1, 2} /\ r.cigartuples[i][2] <= 10
              /\ \E cut \in {5250100, 5255040} : abs(RefPosBefore(r, i) - cut) <= 10
         THEN "small_indels"
    ELSE ByLength(r.reference_end - r.reference_start)

\* both loops run on the record: no early return before or inside the first
BothLoopsRun(r) ==
    /\ ~Excluded(r) /\ r.query_length >= 1800
    /\ ~LargeDelWalk(r.cigartuples, r.reference_start, <<>>).hit

C10_SameCursorSameLabel ==
    Classified =>
      LET first == LargeDelWalk(read.cigartuples, read.reference_start, <<>>).cursors
          second == SmallIndelWalk(read.cigartuples, read.reference_start, <<>>).cursors
      IN  /\ BothLoopsRun(read) =>
                 \A i \in DOMAIN second : /\ second[i] = first[i]
                                          /\ second[i] = RefPosBefore(read, i)
          /\ cat = SharedTraversalLabel(read)

----------------------------------------------------------------------------
(* Statements about the batch loop *)

\* files discovered by the walk
Discovered == sample + todo

\* C5: in every exported row total_reads is the sum of the six category
\* columns, equals the number of iterated records not labelled "ignored",
\* and all six category columns are present (0 when no record fell into one).
C5_TotalIsSumOfCategories ==
    \A i \in DOMAIN rows :
        /\ {"WT", "truncated_reads", "small_indels", "del_5kb", "Artifact",
            "Unclassified_reads"} \subseteq DOMAIN rows[i]
        /\ \A c \in {"WT", "truncated_reads", "small_indels", "del_5kb", "Artifact",
                     "Unclassified_reads"} : rows[i][c] \in Nat
        /\ rows[i]["total_reads"] =
               rows[i]["WT"] + rows[i]["truncated_reads"] + rows[i]["small_indels"]
               + rows[i]["del_5kb"] + rows[i]["Artifact"] + rows[i]["Unclassified_reads"]
        /\ rows[i]["total_reads"] = keptLog[i]

\* C5 witness: a row over two records, one of them ignored, one category empty
C5_Witness ==
    /\ Len(rows) = 1 /\ sample = 1 /\ fetched = 2
    /\ rows[1]["total_reads"] = 1 /\ rows[1]["WT"] = 0 /\ rows[1]["del_5kb"] = 1

\* C6: when exactly one discovered file fails (cannot be opened, or chr11 is
\* missing) the loop runs to its end and exports one row for each other file,
\* in discovery order, and none for the failing one.
C6_OneFailureOneRowLess ==
    /\ pc = "done" /\ Cardinality(failed) = 1
         => /\ todo = 0
            /\ Len(rows) = Discovered - 1
            /\ \A i \in DOMAIN rows : rows[i]["sample"] \notin failed
            /\ \A f \in (1..Discovered) \ failed :
                   \E i \in DOMAIN rows : rows[i]["sample"] = f
            /\ \A i, j \in DOMAIN rows : i < j => rows[i]["sample"] < rows[j]["sample"]
    /\ pc \in {"walk", "fetch"} => ENABLED NextBatch

\* C6 witness: the second of three files fails; the first and the third have a row
C6_Witness ==
    /\ pc = "done" /\ Discovered = 3 /\ failed = {2}
    /\ Len(rows) = 2 /\ rows[1]["sample"] = 1 /\ rows[2]["sample"] = 3

\* C8 as stated: a handle is released before the next sample begins, whether
\* the iteration completed or failed; at most one handle is open at any time
\* and none when the run ends.
C8_HandlesReleased ==
    /\ Cardinality(openHandles) <= 1
    /\ pc = "walk" => openHandles = {}
    /\ pc = "done" => openHandles = {}

----------------------------------------------------------------------------
(* Statements about the merge script *)

\* number of rows of the files read successfully with every kept column
RECURSIVE RowsOf(_)
RowsOf(tables) ==
    IF tables = <<>> THEN 0 ELSE Len(Head(tables).data) + RowsOf(Tail(tables))

\* the file and the row within it that row n of the combined table stems from
RECURSIVE Origin(_, _, _)
Origin(tables, f, n) ==
    IF n <= Len(tables[f].data) THEN <<f, n>>
    ELSE Origin(tables, f + 1, n - Len(tables[f].data))

\* C7: the combined table has as many rows as the successfully read files
\* together, the columns sample, total_reads, WT, small_indels, del_5kb in
\* that order whatever else the inputs carry, the rows in discovery order
\* with none dropped as duplicate; files that fail contribute nothing, and
\* without a valid file nothing is written.
C7_MergeKeepsRowsAndColumns ==
    pc = "merged" =>
      IF imported = <<>> THEN output = NoOutput
      ELSE /\ output.columns = <<"sample", "total_reads", "WT", "small_indels", "del_5kb">>
           /\ Len(output.data) = RowsOf(imported)
           /\ \A n \in DOMAIN output.data :
                LET o == Origin(imported, 1, n)
                    src == imported[o[1]]
                IN  /\ Len(output.data[n]) = 5
                    /\ \A k \in 1..5 :
                         \E j \in DOMAIN src.columns :
                            /\ src.columns[j] = output.columns[k]
                            /\ output.data[n][k] = src.data[o[2]][j]

\* C7 witness: two files carry the same sample, one of them under a longer
\* header, a third entry failed; both rows are in the combined table
C7_Witness ==
    /\ pc = "merged" /\ Len(imported) = 2 /\ Len(output.data) = 2
    /\ Len(imported[1].columns) = 9 /\ imported[2].columns[1] = "del_5kb"
    /\ errors = 1
    /\ output.data[1][1] = 1 /\ output.data[2][1] = 1

====
